---- MODULE Spec2Model ----
(***************************************************************************)
(* Employee records with one attached image: the two servers of the        *)
(* repository.  app.js keeps the image bytes inside the record (the        *)
(* Inline variant), server.js writes the upload to ./uploads and keeps a   *)
(* path in the record (the External variant).  One deployment runs one of  *)
(* the two; `variant` says which.                                          *)
(*                                                                         *)
(* Library behaviour the handlers rest on, as modelled here:               *)
(*  - new Date(s) (V8) on a date-only string y-m-d accepts month 1..12 and *)
(*    day 1..31 and carries a day past the end of the month into the next  *)
(*    month; anything else is an Invalid Date.                             *)
(*  - Mongoose casts "" to null for a Date path, runs the `required`       *)
(*    validators on save() only (not on findByIdAndUpdate), and removes    *)
(*    keys whose value is undefined from an update (Mongoose 6 and later). *)
(*  - multer calls fileFilter before the storage engine; an error from it  *)
(*    reaches Express' default error handler and the route is not run.     *)
(***************************************************************************)
EXTENDS Integers, Sequences, FiniteSets, TLC

VARIABLES variant, db, nextId, sink, now, nUploads, deleted, ops, last

vars == <<variant, db, nextId, sink, now, nUploads, deleted, ops, last>>

(***************************************************************************)
(* Bounds                                                                  *)
(***************************************************************************)
MaxRecords == 3
MaxOps == 2
MaxClock == 1
MaxLimit == 2

(***************************************************************************)
(* JavaScript values                                                       *)
(***************************************************************************)
Undef == "undefined"
Null == "null"

TextFields == {"title", "name", "designation", "address"}

\* A submitted dob: absent, the empty string, or a date-only string y-m-d.
DobUndef == [k |-> "undefined", y |-> 0, m |-> 0, d |-> 0]
DobEmpty == [k |-> "empty", y |-> 0, m |-> 0, d |-> 0]
Iso(y, m, d) == [k |-> "iso", y |-> y, m |-> m, d |-> d]

\* A Date value: a calendar day, the Invalid Date, or null in a document.
DateOf(y, m, d) == [k |-> "date", y |-> y, m |-> m, d |-> d]
InvalidDate == [k |-> "invalid", y |-> 0, m |-> 0, d |-> 0]
NullDate == [k |-> "null", y |-> 0, m |-> 0, d |-> 0]

IsLeap(y) == (y % 4 = 0 /\ y % 100 # 0) \/ y % 400 = 0

DaysInMonth(y, m) ==
  IF m = 2 THEN (IF IsLeap(y) THEN 29 ELSE 28)
  ELSE IF m \in {4, 6, 9, 11} THEN 30 ELSE 31

\* A day of the calendar.
ValidCalendar(s) ==
  /\ s.k = "iso"
  /\ s.m \in 1..12
  /\ s.d \in 1..DaysInMonth(s.y, s.m)

\* new Date(s)
ParseDate(s) ==
  IF s.k # "iso" \/ s.m \notin 1..12 \/ s.d \notin 1..31 THEN InvalidDate
  ELSE IF s.d <= DaysInMonth(s.y, s.m) THEN DateOf(s.y, s.m, s.d)
  ELSE IF s.m = 12 THEN DateOf(s.y + 1, 1, s.d - DaysInMonth(s.y, s.m))
  ELSE DateOf(s.y, s.m + 1, s.d - DaysInMonth(s.y, s.m))

\* Mongoose's cast of a value to a Date path.
CastDate(s) ==
  IF s.k \in {"undefined", "empty"} THEN NullDate ELSE ParseDate(s)

\* req.body[k], undefined when the key is absent.
Get(body, k) ==
  IF k \in DOMAIN body THEN body[k]
  ELSE IF k = "dob" THEN DobUndef ELSE Undef

\* v === undefined; an image in an update is a buffer or a path.
IsUndefined(k, v) ==
  IF k = "dob" THEN v = DobUndef ELSE IF k = "image" THEN FALSE ELSE v = Undef

\* !v
Falsy(k, v) ==
  IF k = "dob" THEN v.k \in {"undefined", "empty"} ELSE v \in {Undef, ""}

(***************************************************************************)
(* Uploaded files                                                          *)
(***************************************************************************)
NoFile == [present |-> FALSE, originalname |-> "", mimetype |-> "", buffer |-> ""]

File(n, mt, b) ==
  [present |-> TRUE, originalname |-> n, mimetype |-> mt, buffer |-> b]

\* mimetype.startsWith("image/"), over the MIME types the model draws.
StartsWithImage(mt) == mt \in {"image/png", "image/gif"}

AcceptAnyFile(file) == TRUE

\* multer's fileFilter of server.js.
FileFilter(file) == StartsWithImage(file.mimetype)

\* `${Date.now()}-${file.originalname}`
FileName(t, file) == <<t, file.originalname>>

NoLocator == [k |-> "null", name |-> <<0, "">>]

\* `/uploads/${req.file.filename}`
Locator(fname) == [k |-> "path", name |-> fname]

\* The content sink after a file is written under fname.
WriteFile(s, fname, bytes) ==
  {p \in s : p[1] # fname} \cup {<<fname, bytes>>}

FileNames(s) == {p[1] : p \in s}

(***************************************************************************)
(* The collection                                                          *)
(***************************************************************************)
Ids(d) == {d[i].id : i \in DOMAIN d}

Exists(d, id) == id \in Ids(d)

\* Employee.findById
FindById(d, id) == d[CHOOSE i \in DOMAIN d : d[i].id = id]

KeepAll(d, id) == d

\* Employee.findByIdAndDelete: the collection without the document.
RemoveById(d, id) == SelectSeq(d, LAMBDA r : r.id # id)

KeepUndefinedAsNull(upd) ==
  [k \in DOMAIN upd |->
     IF IsUndefined(k, upd[k]) THEN (IF k = "dob" THEN DobEmpty ELSE Null)
     ELSE upd[k]]

\* Keys whose value is undefined are removed from an update.
StripUndefined(upd) ==
  [k \in {x \in DOMAIN upd : ~IsUndefined(x, upd[x])} |-> upd[k]]

\* The update cast to the schema: dob to a Date, the rest as they are.
CastUpdate(upd) ==
  LET u == StripUndefined(upd)
  IN  [k \in DOMAIN u |-> IF k = "dob" THEN CastDate(u[k]) ELSE u[k]]

\* A CastError: a dob that is no date.
CastFails(upd) ==
  LET c == CastUpdate(upd)
  IN  "dob" \in DOMAIN c /\ c["dob"] = InvalidDate

\* $set on one document; paths outside the schema are dropped.
ApplySet(rec, upd) ==
  LET c == CastUpdate(upd)
  IN  [k \in DOMAIN rec |-> IF k \in DOMAIN c THEN c[k] ELSE rec[k]]

\* Employee.findByIdAndUpdate(id, upd, {new: true})
UpdateById(d, id, upd) ==
  [i \in DOMAIN d |-> IF d[i].id = id THEN ApplySet(d[i], upd) ELSE d[i]]

(***************************************************************************)
(* Responses                                                               *)
(***************************************************************************)
NoOut == <<>>

\* JSON of a Date: the calendar day of its ISO string.
DateToJSON(dt) == IF dt.k = "date" THEN Iso(dt.y, dt.m, dt.d) ELSE DobEmpty

\* image.toString("base64")
Base64(bytes) == <<"base64", bytes>>

\* `data:${contentType};base64,${base64Image}`
DataUrl(ct, bytes) == <<"data:", ct, Base64(bytes)>>

\* The body of GET /api/employees/:id of app.js.
InlFormat(rec) ==
  [k \in DOMAIN rec |->
     IF k = "image" THEN DataUrl(rec.contentType, rec.image)
     ELSE IF k = "dob" THEN DateToJSON(rec.dob)
     ELSE rec[k]]

\* The body of GET /api/employees/:id of server.js.
ExtFormat(rec) ==
  [k \in DOMAIN rec |-> IF k = "dob" THEN DateToJSON(rec.dob) ELSE rec[k]]

Format(rec) == IF variant = "inline" THEN InlFormat(rec) ELSE ExtFormat(rec)

\* What GET /api/employees/:id answers on collection d.
ReadResp(d, id) ==
  IF Exists(d, id) THEN [status |-> 200, body |-> Format(FindById(d, id))]
  ELSE [status |-> 404, body |-> NoOut]

\* A query parameter: absent, or a number.
Absent == [given |-> FALSE, v |-> 0]
Param(v) == [given |-> TRUE, v |-> v]

Req(op, id, body, file, fname) ==
  [op |-> op, id |-> id, body |-> body, file |-> file, fname |-> fname,
   page |-> Absent, limit |-> Absent]

Resp(req, status, msg, out) ==
  [op |-> req.op, id |-> req.id, body |-> req.body, file |-> req.file,
   fname |-> req.fname, page |-> req.page, limit |-> req.limit,
   status |-> status, msg |-> msg, out |-> out]

NoName == <<0, "">>

EmptyBody == [k \in {} |-> ""]

(***************************************************************************)
(* app.js: the image inside the record                                     *)
(***************************************************************************)
InlNewEmployeeNoType(body, file, id) ==
  [id |-> id,
   image |-> file.buffer,
   title |-> Get(body, "title"),
   name |-> Get(body, "name"),
   designation |-> Get(body, "designation"),
   dob |-> ParseDate(Get(body, "dob")),
   address |-> Get(body, "address"),
   contentType |-> ""]

\* new Employee({...}) of POST /api/employees.
InlNewEmployee(body, file, id) ==
  [id |-> id,
   image |-> file.buffer,
   title |-> Get(body, "title"),
   name |-> Get(body, "name"),
   designation |-> Get(body, "designation"),
   dob |-> ParseDate(Get(body, "dob")),
   address |-> Get(body, "address"),
   contentType |->
     IF file.mimetype = "" THEN "application/octet-stream" ELSE file.mimetype]

\* The schema's required validators, run by save().
InlSchemaValid(doc) ==
  /\ \A f \in TextFields : doc[f] \notin {Undef, Null, ""}
  /\ doc.image \notin {Undef, Null, ""}
  /\ doc.contentType \notin {Undef, Null, ""}
  /\ doc.dob.k = "date"

\* The answer of POST /api/employees: its status and message.
InlCreateStatus(body, file) ==
  IF ~file.present THEN <<400, "Image file is required.">>
  ELSE IF \E f \in TextFields \cup {"dob"} : Falsy(f, Get(body, f))
    THEN <<400, "All fields are required.">>
  ELSE IF ParseDate(Get(body, "dob")) = InvalidDate
    THEN <<400, "Invalid date format.">>
  ELSE IF ~InlSchemaValid(InlNewEmployee(body, file, 0))
    THEN <<400, "Error creating Employee">>
  ELSE <<201, "">>

InlCreate(body, file) ==
  /\ variant = "inline"
  /\ nextId <= MaxRecords
  /\ LET st == InlCreateStatus(body, file)
         req == Req("create", nextId, body, file, NoName)
     IN  IF st[1] = 201
         THEN /\ db' = Append(db, InlNewEmployee(body, file, nextId))
              /\ nextId' = nextId + 1
              /\ last' = Resp(req, 201, "", NoOut)
         ELSE /\ UNCHANGED <<db, nextId>>
              /\ last' = Resp(Req("create", 0, body, file, NoName), st[1], st[2], NoOut)
  /\ UNCHANGED <<variant, sink, now, nUploads, deleted>>

\* `updates` of PUT /api/employees/:id: the body, and the file when there is one.
InlUpdates(body, file) ==
  IF file.present
  THEN [k \in DOMAIN body \cup {"image", "contentType"} |->
          IF k = "image" THEN file.buffer
          ELSE IF k = "contentType" THEN file.mimetype
          ELSE body[k]]
  ELSE body

\* The answer of a findByIdAndUpdate route.
UpdateStatus(d, id, upd) ==
  IF CastFails(upd) THEN 500
  ELSE IF ~Exists(d, id) THEN 404
  ELSE 200

InlUpdate(id, body, file) ==
  /\ variant = "inline"
  /\ LET upd == InlUpdates(body, file)
         st == UpdateStatus(db, id, upd)
     IN  /\ db' = IF st = 200 THEN UpdateById(db, id, upd) ELSE db
         /\ last' = Resp(Req("update", id, body, file, NoName), st, "", NoOut)
  /\ UNCHANGED <<variant, nextId, sink, now, nUploads, deleted>>

(***************************************************************************)
(* Both servers: read and delete by id                                     *)
(***************************************************************************)
\* GET /api/employees/:id
Read(id) ==
  /\ last' = Resp(Req("read", id, EmptyBody, NoFile, NoName),
                  ReadResp(db, id).status, "", ReadResp(db, id).body)
  /\ UNCHANGED <<variant, db, nextId, sink, now, nUploads, deleted>>

\* DELETE /api/employees/:id
Delete(id) ==
  /\ IF Exists(db, id)
     THEN /\ db' = RemoveById(db, id)
          /\ deleted' = deleted \cup {id}
          /\ last' = Resp(Req("delete", id, EmptyBody, NoFile, NoName), 200, "", NoOut)
     ELSE /\ UNCHANGED <<db, deleted>>
          /\ last' = Resp(Req("delete", id, EmptyBody, NoFile, NoName), 404, "", NoOut)
  /\ UNCHANGED <<variant, nextId, sink, now, nUploads>>

(***************************************************************************)
(* server.js: the image in ./uploads, its path in the record               *)
(***************************************************************************)
\* new Employee({...}) of POST /api/employees, cast to the schema.
ExtNewEmployee(body, image, id) ==
  [id |-> id,
   title |-> Get(body, "title"),
   image |-> image,
   name |-> Get(body, "name"),
   designation |-> Get(body, "designation"),
   dob |-> CastDate(Get(body, "dob")),
   address |-> Get(body, "address")]

AnyDocValid(doc) == TRUE

\* The schema's required validators, run by save(); a dob that does not cast
\* fails validation too.
ExtSchemaValid(doc) ==
  /\ \A f \in TextFields : doc[f] \notin {Undef, Null, ""}
  /\ doc.dob.k = "date"

\* The times Date.now() can return at the next upload.
Clock == {t \in {now, now + 1} : t <= MaxClock}

\* upload.single("image") refused the file: Express answers, the route is not run.
ExtRejected(op, id, body, file) ==
  /\ file.present /\ ~FileFilter(file)
  /\ last' = Resp(Req(op, id, body, file, NoName), 500,
                  "Only image files are allowed", NoOut)
  /\ UNCHANGED <<variant, db, nextId, sink, now, nUploads, deleted>>

\* upload.single("image") stored the file under fname (when there is one).
ExtStored(file, t) ==
  IF file.present
  THEN /\ sink' = WriteFile(sink, FileName(t, file), file.buffer)
       /\ nUploads' = nUploads + 1
       /\ now' = t
  ELSE UNCHANGED <<sink, nUploads, now>>

\* POST /api/employees
ExtCreate(body, file) ==
  /\ variant = "external"
  /\ nextId <= MaxRecords
  /\ \/ ExtRejected("create", 0, body, file)
     \/ /\ file.present => FileFilter(file)
        /\ \E t \in (IF file.present THEN Clock ELSE {now}) :
             LET fname == IF file.present THEN FileName(t, file) ELSE NoName
                 image == IF file.present THEN Locator(fname) ELSE NoLocator
                 doc == ExtNewEmployee(body, image, nextId)
             IN  /\ ExtStored(file, t)
                 /\ IF ExtSchemaValid(doc)
                    THEN /\ db' = Append(db, doc)
                         /\ nextId' = nextId + 1
                         /\ last' = Resp(Req("create", nextId, body, file, fname),
                                         201, "", NoOut)
                    ELSE /\ UNCHANGED <<db, nextId>>
                         /\ last' = Resp(Req("create", 0, body, file, fname),
                                         500, "Error creating employee", NoOut)
        /\ UNCHANGED <<variant, deleted>>

ExtUpdatedDataNoImage(body, image) ==
  [k \in TextFields \cup {"dob"} |-> Get(body, k)]

\* `updatedData` of PUT /api/employees/:id; image is the new path, or
\* NoLocator when no file came.
ExtUpdatedData(body, image) ==
  [k \in TextFields \cup {"dob"} \cup (IF image # NoLocator THEN {"image"} ELSE {}) |->
     IF k = "image" THEN image ELSE Get(body, k)]

\* PUT /api/employees/:id
ExtUpdate(id, body, file) ==
  /\ variant = "external"
  /\ \/ ExtRejected("update", id, body, file)
     \/ /\ file.present => FileFilter(file)
        /\ \E t \in (IF file.present THEN Clock ELSE {now}) :
             LET fname == IF file.present THEN FileName(t, file) ELSE NoName
                 image == IF file.present THEN Locator(fname) ELSE NoLocator
                 upd == ExtUpdatedData(body, image)
                 st == UpdateStatus(db, id, upd)
             IN  /\ ExtStored(file, t)
                 /\ db' = IF st = 200 THEN UpdateById(db, id, upd) ELSE db
                 /\ last' = Resp(Req("update", id, body, file, fname), st, "", NoOut)
        /\ UNCHANGED <<variant, nextId, deleted>>

(***************************************************************************)
(* Listings                                                                *)
(***************************************************************************)
Min(a, b) == IF a < b THEN a ELSE b

\* find().skip(s).limit(l): l documents after the first s, in collection order.
SkipLimit(d, s, l) ==
  [i \in 1..(IF Len(d) > s THEN Min(l, Len(d) - s) ELSE 0) |-> d[s + i]]

\* Math.ceil(n / l), l >= 1
Ceil(n, l) == (n + l - 1) \div l

DefaultPage == 1
DefaultLimit == 10

SkipOfNextPage(page, limit) == page * limit

\* (page - 1) * limit
SkipOf(page, limit) == (page - 1) * limit

\* The body of GET /api/employees of server.js.
ExtListResp(d, page, limit) ==
  LET p == IF page.given THEN page.v ELSE DefaultPage
      l == IF limit.given THEN limit.v ELSE DefaultLimit
  IN  [totalEmployees |-> Len(d),
       totalPages |-> Ceil(Len(d), l),
       currentPage |-> p,
       employees |-> SkipLimit(d, SkipOf(p, l), l)]

\* GET /api/employees of server.js, page >= 1 and limit >= 1 when given.
ExtList(page, limit) ==
  /\ variant = "external"
  /\ last' = [Resp(Req("list", 0, EmptyBody, NoFile, NoName), 200, "",
                   ExtListResp(db, page, limit))
              EXCEPT !.page = page, !.limit = limit]
  /\ UNCHANGED <<variant, db, nextId, sink, now, nUploads, deleted>>

\* The body of GET /api/employees of app.js: Number(limit) of 0 or NaN lists all.
InlListResp(d, limit) ==
  IF limit.given /\ limit.v # 0 THEN SkipLimit(d, 0, limit.v) ELSE d

\* GET /api/employees of app.js
InlList(limit) ==
  /\ variant = "inline"
  /\ last' = [Resp(Req("list", 0, EmptyBody, NoFile, NoName), 200, "",
                   InlListResp(db, limit))
              EXCEPT !.limit = limit]
  /\ UNCHANGED <<variant, db, nextId, sink, now, nUploads, deleted>>

(***************************************************************************)
(* Requests                                                                *)
(***************************************************************************)
NoExtra == EmptyBody

\* A request body: the text fields of t that are not undefined, dob when
\* given, and the extra keys of ex.
Body(t, dob, ex) ==
  [k \in {f \in TextFields : t[f] # Undef}
         \cup (IF dob # DobUndef THEN {"dob"} ELSE {}) \cup DOMAIN ex |->
     IF k \in DOMAIN ex THEN ex[k] ELSE IF k = "dob" THEN dob ELSE t[k]]

AllOf(v) == [f \in TextFields |-> v]

F1 == File("a.png", "image/png", "B1")
F2 == File("a.png", "image/gif", "B2")
FT == File("n.txt", "text/plain", "B3")

\* A request: its body and its file.
Request(b, f) == [body |-> b, file |-> f]

D1 == Iso(1990, 1, 1)
D2 == Iso(2000, 2, 29)
DOverflow == Iso(2023, 2, 30)

\* All of the text fields "a", but at most one missing or empty.
CreateTexts ==
  {t \in [TextFields -> {"a", "", Undef}] :
     Cardinality({f \in TextFields : t[f] # "a"}) <= 1}

CreateDobs ==
  {DobUndef, DobEmpty, D1, DOverflow, Iso(2023, 13, 1), Iso(2023, 1, 32)}

CreateBodies == {Body(t, d, NoExtra) : t \in CreateTexts, d \in CreateDobs}

\* Any subset of the text fields, set to "b".
UpdateTexts == [TextFields -> {"b", Undef}]

UpdateDobs == {DobUndef, D2}

\* Text fields named like the attachment's paths.
AttachmentKeys ==
  {[k \in {"contentType"} |-> ""], [k \in {"image"} |-> ""]}

UpdateBodies ==
  {Body(t, d, NoExtra) : t \in UpdateTexts, d \in UpdateDobs}
    \cup {Body(AllOf(Undef), d, NoExtra) :
            d \in {DobEmpty, DOverflow, Iso(2023, 13, 1)}}
    \cup {Body(AllOf(Undef), DobUndef, ex) : ex \in AttachmentKeys}

Files == {NoFile, F1, F2, FT}

CreateRequests == {Request(b, f) : b \in CreateBodies, f \in Files}

UpdateRequests == {Request(b, f) : b \in UpdateBodies, f \in Files \ {F1}}

\* The requests of the lifecycle specification.
LifeCreate == Body(AllOf("a"), D1, NoExtra)
LifeUpdate == Body([f \in TextFields |-> IF f = "address" THEN "b" ELSE Undef],
                   DobUndef, NoExtra)

Pages == 1..(MaxRecords + 1)
Limits == {Absent} \cup {Param(l) : l \in 1..MaxLimit}

(***************************************************************************)
(* Specifications                                                          *)
(***************************************************************************)
Init ==
  /\ variant \in {"inline", "external"}
  /\ db = <<>>
  /\ nextId = 1
  /\ sink = {}
  /\ now = 0
  /\ nUploads = 0
  /\ deleted = {}
  /\ ops = 0
  /\ last = Resp(Req("none", 0, EmptyBody, NoFile, NoName), 0, "", NoOut)

\* One of at most MaxOps requests.
Counted == ops < MaxOps /\ ops' = ops + 1

TargetIds == 1..nextId

InlCreateReq ==
  /\ Counted
  /\ \E r \in CreateRequests : InlCreate(r.body, r.file)

ExtCreateReq ==
  /\ Counted
  /\ \E r \in CreateRequests : ExtCreate(r.body, r.file)

InlUpdateReq ==
  /\ Counted
  /\ \E id \in TargetIds, r \in UpdateRequests : InlUpdate(id, r.body, r.file)

ExtUpdateReq ==
  /\ Counted
  /\ \E id \in TargetIds, r \in UpdateRequests : ExtUpdate(id, r.body, r.file)

ReadReq == Counted /\ \E id \in TargetIds : Read(id)

DeleteReq == Counted /\ \E id \in TargetIds : Delete(id)

Next ==
  \/ InlCreateReq
  \/ ExtCreateReq
  \/ InlUpdateReq
  \/ ExtUpdateReq
  \/ ReadReq
  \/ DeleteReq

Spec == Init /\ [][Next]_vars

\* The lifecycle specification: any number of a few requests.
LifeInlCreate == InlCreate(LifeCreate, F1) /\ UNCHANGED ops

LifeExtCreate == ExtCreate(LifeCreate, F1) /\ UNCHANGED ops

LifeInlUpdate ==
  /\ UNCHANGED ops
  /\ \E id \in TargetIds : InlUpdate(id, LifeUpdate, NoFile)

LifeExtUpdate ==
  /\ UNCHANGED ops
  /\ \E id \in TargetIds : ExtUpdate(id, LifeUpdate, NoFile)

LifeRead == UNCHANGED ops /\ \E id \in TargetIds : Read(id)

LifeDelete == UNCHANGED ops /\ \E id \in TargetIds : Delete(id)

LifeExtList ==
  /\ UNCHANGED ops
  /\ \E p \in {Absent} \cup {Param(n) : n \in Pages}, l \in Limits : ExtList(p, l)

LifeInlList == UNCHANGED ops /\ \E l \in Limits : InlList(l)

NextLife ==
  \/ LifeInlCreate
  \/ LifeExtCreate
  \/ LifeInlUpdate
  \/ LifeExtUpdate
  \/ LifeRead
  \/ LifeDelete
  \/ LifeExtList
  \/ LifeInlList

SpecLife == Init /\ [][NextLife]_vars

(***************************************************************************)
(* Properties                                                              *)
(***************************************************************************)
Fields == TextFields \cup {"dob"}

\* The record of the collection d with this id, as stored.
Rec(d, id) == FindById(d, id)

\* A body whose five fields are all valid values of the data model.
ValidFields(body) ==
  /\ \A f \in TextFields : Get(body, f) \notin {Undef, ""}
  /\ ValidCalendar(Get(body, "dob"))

\* The value a stored field has once set to the submitted value v.
IsSetTo(rec, k, v) ==
  IF k = "dob" THEN DateToJSON(rec.dob) = v ELSE rec[k] = v

DeletedStaysGone ==
  [][/\ \A id \in deleted :
          /\ id \in deleted'
          /\ ~Exists(db', id)
          /\ ReadResp(db', id).status = 404
     /\ (last'.op \in {"read", "delete"} /\ last'.id \in deleted)
          => last'.status = 404]_vars

\* A deleted id was read, with a younger record in the collection.
ReadAfterDelete ==
  /\ last.op = "read" /\ last.id \in deleted /\ last.status = 404
  /\ \E i \in DOMAIN db : db[i].id > last.id

RECURSIVE ConcatPages(_, _, _, _)
\* The employees of pages p..tp at limit l, one after the other.
ConcatPages(d, l, p, tp) ==
  IF p > tp THEN <<>>
  ELSE ExtListResp(d, Param(p), Param(l)).employees \o ConcatPages(d, l, p + 1, tp)

\* C3: in page mode, for N records and a limit L >= 1, totalPages is
\* ceil(N / L), page p is the slice [(p-1)L, pL) of the records in order, and
\* pages 1..totalPages one after the other are exactly the records.
PagesPartitionRecords ==
  variant = "external" =>
    \A l \in 1..MaxLimit :
      LET n == Len(db)
          tp == ExtListResp(db, Param(1), Param(l)).totalPages
      IN  /\ tp * l >= n /\ (tp = 0 \/ (tp - 1) * l < n)
          /\ ExtListResp(db, Param(1), Param(l)).totalEmployees = n
          /\ \A p \in Pages :
               LET e == ExtListResp(db, Param(p), Param(l)).employees
               IN  /\ Len(e) <= l
                   /\ \A i \in 1..l :
                        IF (p - 1) * l + i <= n
                        THEN i <= Len(e) /\ e[i] = db[(p - 1) * l + i]
                        ELSE i > Len(e)
          /\ ConcatPages(db, l, 1, tp) = db
          /\ (last.op = "list" /\ last.limit = Param(l) /\ last.page.given)
               => last.out = ExtListResp(db, last.page, last.limit)

\* The second page of three records at limit 2 was listed: one record.
SecondPageListed ==
  /\ variant = "external"
  /\ last.op = "list" /\ last.page = Param(2) /\ last.limit = Param(2)
  /\ Len(db) = 3
  /\ last.out.totalPages = 2
  /\ Len(last.out.employees) = 1
  /\ last.out.employees[1] = db[3]

\* C4: a create with five valid fields and an image succeeds with a fresh id,
\* and a read of that id returns the submitted title, name, designation, dob
\* and address and the submitted attachment: the same bytes and content type
\* (app.js), the path of the file written for this upload (server.js).
CreateThenReadReturnsSubmitted ==
  [][(/\ last'.op = "create"
      /\ ValidFields(last'.body)
      /\ last'.file.present
      /\ variant = "external" => StartsWithImage(last'.file.mimetype))
     => /\ last'.status = 201
        /\ last'.id \notin Ids(db) \cup deleted
        /\ ReadResp(db', last'.id).status = 200
        /\ LET out == ReadResp(db', last'.id).body
           IN  /\ \A f \in Fields : out[f] = last'.body[f]
               /\ variant = "inline" =>
                    out.image = DataUrl(last'.file.mimetype, last'.file.buffer)
               /\ variant = "external" =>
                    /\ out.image = Locator(last'.fname)
                    /\ last'.fname[2] = last'.file.originalname
                    /\ <<last'.fname, last'.file.buffer>> \in sink']_vars

\* A record was created with an image and reads back with its path.
CreatedWithImage ==
  /\ variant = "external"
  /\ last.op = "create" /\ last.status = 201 /\ last.file = F1
  /\ ReadResp(db, last.id).body.image = Locator(last.fname)
  /\ ReadResp(db, last.id).body.dob = D1
  /\ <<last.fname, "B1">> \in sink

\* C5: a create whose dob is not a day of the calendar (2023-02-30, a month
\* 13, a day 32) fails and persists no record.
InvalidDobIsRejected ==
  (last.op = "create" /\ ~ValidCalendar(Get(last.body, "dob")))
    => /\ last.status >= 400
       /\ ~Exists(db, last.id)

\* C6: under app.js every persisted record has image bytes and a content type.
InlineAttachmentComplete ==
  variant = "inline" =>
    \A i \in DOMAIN db :
      /\ db[i].image \notin {Undef, Null, ""}
      /\ db[i].contentType \notin {Undef, Null, ""}

NonImageRejectedBeforeWrite ==
  [][(/\ variant = "external"
      /\ last'.op \in {"create", "update"}
      /\ last'.file.present
      /\ ~StartsWithImage(last'.file.mimetype))
     => /\ last'.status >= 400
        /\ last'.msg = "Only image files are allowed"
        /\ sink' = sink
        /\ nUploads' = nUploads
        /\ db' = db]_vars

\* A text file was refused on an update of an existing record.
TextFileRefused ==
  /\ variant = "external"
  /\ last.op = "update" /\ last.file = FT /\ last.status = 500
  /\ Exists(db, last.id)
  /\ Rec(db, last.id).title = "a"
  /\ Cardinality(sink) = 1

\* C9: under server.js any two uploads are written to distinct files, and
\* no two records hold the same path.
UploadsNeverCollide ==
  variant = "external" =>
    /\ Cardinality(FileNames(sink)) = nUploads
    /\ \A i, j \in DOMAIN db :
         (i # j /\ db[i].image # NoLocator) => db[i].image # db[j].image

\* C10: a create in which one of title, name, designation, dob, address is
\* missing or empty fails and leaves the collection exactly as it was.
IncompleteCreateLeavesNothing ==
  [][(/\ last'.op = "create"
      /\ \E f \in Fields : Falsy(f, Get(last'.body, f)))
     => /\ last'.status >= 400
        /\ db' = db
        /\ nextId' = nextId]_vars

\* A create with an empty title failed after its file was written.
EmptyTitleRefused ==
  /\ variant = "external"
  /\ last.op = "create" /\ last.status = 500 /\ last.file = F1
  /\ Get(last.body, "title") = ""
  /\ Get(last.body, "dob") = D1
  /\ db = <<>>
  /\ Cardinality(sink) = 1

====
